---- MODULE Spec2Model ----
(***************************************************************************)
(* Authentication core of the online shop (src/main.py, src/forms.py).     *)
(*                                                                         *)
(* State: the users table, one session cookie per browser context, and a   *)
(* pool of requests in flight.  A request opens its session from the       *)
(* cookie the browser sent, runs its view function, and the cookie is      *)
(* written back with the response only when the session was modified       *)
(* (Flask's client-side session).  The register view reads the table and   *)
(* commits in two steps, so two registrations can interleave.              *)
(*                                                                         *)
(* Form submissions are those of the rendered form (they carry its CSRF    *)
(* token); the field values are what the user typed.                       *)
(***************************************************************************)
EXTENDS Integers, FiniteSets, Sequences, TLC

\* ---- bounds ------------------------------------------------------------
NumCtx == 2          \* browser contexts
NumReq == 2          \* requests that can be in flight at the same time

Ctxs == 1..NumCtx
Reqs == 1..NumReq

\* what a user can type into the fields ("" empty, " " whitespace only)
Emails    == {"", "a@x.com", "b@x.com"}
Passwords == {"", "pw1", "pw2"}
Names     == {"", " ", "Ann"}
\* outcomes of werkzeug's random salt generator
Salts     == {"s1", "s2"}

Messages == {"Password doesn't match", "Email doesn't exist", "Email Already Exists"}

VARIABLES users, cookie, req, plain

vars == <<users, cookie, req, plain>>

\* ---- forms.py ------------------------------------------------------------
\* str.strip() on the values of the model
Strip(s) == IF s = " " THEN "" ELSE s

\* faulty variant: the data is only tested for truth, whitespace passes
DataRequiredTruthy(data) == data # ""

\* wtforms DataRequired: the data is truthy and, for a string, not only whitespace
DataRequired(data) == data # "" /\ Strip(data) # ""

CreateLoginForm(email, password) ==
    [name |-> "", email |-> email, password |-> password]

CreateUserForm(name, email, password) ==
    [name |-> name, email |-> email, password |-> password]

\* form.validate_on_submit() of CreateLoginForm
LoginFormValid(submitted, form) ==
    submitted /\ DataRequired(form.email) /\ DataRequired(form.password)

\* form.validate_on_submit() of CreateUserForm
UserFormValid(submitted, form) ==
    submitted /\ DataRequired(form.name) /\ DataRequired(form.email)
              /\ DataRequired(form.password)

\* ---- werkzeug.security ---------------------------------------------------
\* faulty variant: the digest leaves the password out
HashInternalSaltOnly(salt, password) == <<salt>>

\* the digest of salt and password (a one-way function without collisions)
HashInternal(salt, password) == <<salt, password>>

\* faulty variant: the digest is computed without the salt
generate_password_hash_unsalted(password, salt) ==
    <<"pbkdf2:sha256", salt, HashInternal("", password)>>

\* "method$salt$digest"
generate_password_hash(password, salt) ==
    <<"pbkdf2:sha256", salt, HashInternal(salt, password)>>

\* faulty variant: any well-formed hash string verifies
check_password_hash_any(pwhash, password) == Len(pwhash) = 3

\* a hash string with fewer than two "$" never verifies; otherwise the digest
\* is recomputed with the embedded salt and compared
check_password_hash(pwhash, password) ==
    /\ Len(pwhash) = 3
    /\ HashInternal(pwhash[2], password) = pwhash[3]

\* ---- the users table -----------------------------------------------------
\* Python's None for a user; the id 0 also stands for "no _user_id in session"
NoneUser == [id |-> 0, email |-> "", password |-> <<>>, name |-> ""]

\* Query.first(): the row with the lowest id, or None
First(rows) ==
    IF rows = {} THEN NoneUser
    ELSE CHOOSE u \in rows : \A v \in rows : u.id <= v.id

\* faulty variant: the lookup by email never finds a row
filter_by_email_miss(table, email) == NoneUser

\* User.query.filter_by(email=email).first()
filter_by_email(table, email) == First({u \in table : u.email = email})

\* the user_loader: User.query.get(user_id)
load_user(table, user_id) == First({u \in table : u.id = user_id})

\* faulty variant: the email column without unique=True
NoUniqueConstraint(table, email) == FALSE

\* email = db.Column(db.String(100), unique=True): an INSERT violates it
UniqueViolation(table, email) == \E u \in table : u.email = email

\* faulty variant: every row gets the id 1
NextIdStuck(table) == 1

\* id = db.Column(db.Integer, primary_key=True): the next row id
NextId(table) == Cardinality(table) + 1

\* ---- the session and flask_login ------------------------------------------
\* The session cookie of a browser context: the _user_id key (0: absent) and
\* the _flashes list, of which the model keeps whether it is non-empty.
EmptyCookie == [user_id |-> 0, flashes |-> FALSE]

\* open_session: the session of a request is what the cookie holds; flashed is
\* the message this request has flashed ("" for none)
open_session(c) ==
    [user_id |-> cookie[c].user_id, flashes |-> cookie[c].flashes,
     modified |-> FALSE, flashed |-> ""]

\* faulty variant: the message is flashed into a session emptied first
flash_cleared(sess, message) ==
    [sess EXCEPT !.user_id = 0, !.flashes = TRUE, !.modified = TRUE,
                 !.flashed = message]

flash(sess, message) ==
    [sess EXCEPT !.flashes = TRUE, !.modified = TRUE, !.flashed = message]

\* faulty variant: the session is bound to the first user of the table
login_user_first(sess, user) ==
    [sess EXCEPT !.user_id = 1, !.modified = TRUE]

\* faulty variant: a session that holds a user keeps it
login_user_keep(sess, user) ==
    IF sess.user_id # 0
    THEN [sess EXCEPT !.modified = TRUE]
    ELSE [sess EXCEPT !.user_id = user.id, !.modified = TRUE]

login_user(sess, user) ==
    [sess EXCEPT !.user_id = user.id, !.modified = TRUE]

\* faulty variant: the session is written even when no user is in it
logout_user_always(sess) == [sess EXCEPT !.user_id = 0, !.modified = TRUE]

\* pops _user_id only when it is there
logout_user(sess) ==
    IF sess.user_id # 0 THEN [sess EXCEPT !.user_id = 0, !.modified = TRUE] ELSE sess

\* current_user: the user the loader finds for the session's _user_id
current_user(table, sess) ==
    IF sess.user_id = 0 THEN NoneUser ELSE load_user(table, sess.user_id)

\* faulty variant: the anonymous user counts as authenticated
is_authenticated_always(user) == TRUE

is_authenticated(user) == user.id # 0

\* a template that shows the flashed messages pops them from the session
render_template(sess, shown) ==
    IF shown /\ sess.flashes
    THEN [sess EXCEPT !.flashes = FALSE, !.modified = TRUE]
    ELSE sess

\* login_manager.unauthorized() with no login_view configured: abort(401)
unauthorized == "401"

\* save_session: the response carries a Set-Cookie header with the whole
\* session only when the session was modified
NoSetCookie == [set |-> FALSE, user_id |-> 0, flashes |-> FALSE]

save_session(sess) ==
    IF sess.modified
    THEN [set |-> TRUE, user_id |-> sess.user_id, flashes |-> sess.flashes]
    ELSE NoSetCookie

\* ---- requests -------------------------------------------------------------
NoForm == [name |-> "", email |-> "", password |-> ""]

\* A request slot.  kind, form, flashed, resp and logged_in describe the request
\* and its response; set_cookie is the header the response carries.
Idle == [pc |-> "idle", kind |-> "", ctx |-> 0, form |-> NoForm, flashed |-> "",
         set_cookie |-> NoSetCookie, resp |-> "", logged_in |-> FALSE]

\* the view function returned: the response is on its way to the browser
Returned(r, kind, c, form, sess, resp, logged_in) ==
    req' = [req EXCEPT ![r] =
              [pc |-> "respond", kind |-> kind, ctx |-> c, form |-> form,
               flashed |-> sess.flashed, set_cookie |-> save_session(sess),
               resp |-> resp, logged_in |-> logged_in]]

Init ==
    /\ users = {}
    /\ cookie = [c \in Ctxs |-> EmptyCookie]
    /\ req = [r \in Reqs |-> Idle]
    /\ plain = <<>>

\* GET / POST /login
login(r, c, submitted, email, password, shown) ==
    /\ req[r].pc = "idle"
    /\ submitted \/ (email = "" /\ password = "")
    /\ LET form == CreateLoginForm(email, password)
           sess == open_session(c)
           user == filter_by_email(users, form.email)
       IN  IF LoginFormValid(submitted, form)
           THEN IF user # NoneUser
                THEN IF check_password_hash(user.password, form.password)
                     THEN Returned(r, "login", c, form, login_user(sess, user),
                                   "redirect:/", FALSE)
                     ELSE Returned(r, "login", c, form,
                                   flash(sess, "Password doesn't match"),
                                   "redirect:/login", FALSE)
                ELSE Returned(r, "login", c, form,
                              flash(sess, "Email doesn't exist"),
                              "redirect:/login", FALSE)
           ELSE Returned(r, "login", c, form, render_template(sess, shown),
                         "login.html", FALSE)
    /\ UNCHANGED <<users, cookie, plain>>

\* GET / POST /register up to the email lookup; past it the view no longer
\* touches the session
register(r, c, submitted, name, email, password, shown) ==
    /\ req[r].pc = "idle"
    /\ submitted \/ (name = "" /\ email = "" /\ password = "")
    /\ LET form == CreateUserForm(name, email, password)
           sess == open_session(c)
           user == filter_by_email(users, form.email)
       IN  IF UserFormValid(submitted, form)
           THEN IF user = NoneUser
                THEN req' = [req EXCEPT ![r] =
                               [Idle EXCEPT !.pc = "commit", !.kind = "register",
                                            !.ctx = c, !.form = form]]
                ELSE Returned(r, "register", c, form,
                              flash(sess, "Email Already Exists"),
                              "redirect:/login", FALSE)
           ELSE Returned(r, "register", c, form, render_template(sess, shown),
                         "register.html", FALSE)
    /\ UNCHANGED <<users, cookie, plain>>

\* faulty variant: a commit that finds the email stored replaces the stored row
\* (db.session.merge on the email instead of add)
register_commit_replace(r, salt) ==
    /\ req[r].pc = "commit"
    /\ LET form == req[r].form
           new_user == [id |-> NextId(users), email |-> form.email,
                        password |-> generate_password_hash(form.password, salt),
                        name |-> form.name]
       IN  /\ users' = {u \in users : u.email # form.email} \cup {new_user}
           /\ plain' = Append(plain, form.password)
           /\ req' = [req EXCEPT ![r].pc = "respond", ![r].resp = "redirect:/"]
    /\ UNCHANGED cookie

\* faulty variant: the commit waits while another request is about to commit
\* the same email
register_commit_waiting(r, salt) ==
    /\ req[r].pc = "commit"
    /\ \A q \in Reqs \ {r} :
          ~(req[q].pc = "commit" /\ req[q].form.email = req[r].form.email)
    /\ LET form == req[r].form
           new_user == [id |-> NextId(users), email |-> form.email,
                        password |-> generate_password_hash(form.password, salt),
                        name |-> form.name]
       IN  IF UniqueViolation(users, form.email)
           THEN /\ req' = [req EXCEPT ![r].pc = "respond", ![r].resp = "500"]
                /\ UNCHANGED <<users, plain>>
           ELSE /\ users' = users \cup {new_user}
                /\ plain' = Append(plain, form.password)
                /\ req' = [req EXCEPT ![r].pc = "respond", ![r].resp = "redirect:/"]
    /\ UNCHANGED cookie

\* db.session.add(new_user); db.session.commit(); an IntegrityError is not
\* caught by the view and becomes the 500 response
register_commit(r, salt) ==
    /\ req[r].pc = "commit"
    /\ LET form == req[r].form
           new_user == [id |-> NextId(users), email |-> form.email,
                        password |-> generate_password_hash(form.password, salt),
                        name |-> form.name]
       IN  IF UniqueViolation(users, form.email)
           THEN /\ req' = [req EXCEPT ![r].pc = "respond", ![r].resp = "500"]
                /\ UNCHANGED <<users, plain>>
           ELSE /\ users' = users \cup {new_user}
                /\ plain' = Append(plain, form.password)
                /\ req' = [req EXCEPT ![r].pc = "respond", ![r].resp = "redirect:/"]
    /\ UNCHANGED cookie

\* GET /shop behind @login_required
shop(r, c, shown) ==
    /\ req[r].pc = "idle"
    /\ LET sess == open_session(c)
       IN  IF ~is_authenticated(current_user(users, sess))
           THEN Returned(r, "shop", c, NoForm, sess, unauthorized, FALSE)
           ELSE Returned(r, "shop", c, NoForm, render_template(sess, shown),
                         "glasses.html", TRUE)
    /\ UNCHANGED <<users, cookie, plain>>

\* GET /, /about, /contact: the template gets logged_in=current_user.is_authenticated
Page(r, c, kind, template, shown) ==
    /\ req[r].pc = "idle"
    /\ LET sess == open_session(c)
       IN  Returned(r, kind, c, NoForm, render_template(sess, shown), template,
                    is_authenticated(current_user(users, sess)))
    /\ UNCHANGED <<users, cookie, plain>>

home(r, c, shown) == Page(r, c, "home", "index.html", shown)

about(r, c, shown) == Page(r, c, "about", "about.html", shown)

contact(r, c, shown) == Page(r, c, "contact", "contact.html", shown)

\* GET /logout
logout(r, c) ==
    /\ req[r].pc = "idle"
    /\ Returned(r, "logout", c, NoForm, logout_user(open_session(c)), "redirect:/", FALSE)
    /\ UNCHANGED <<users, cookie, plain>>

\* faulty variant: one session for the whole server process
SetCookieGlobal(jar, c, header) ==
    IF header.set
    THEN [k \in DOMAIN jar |-> [user_id |-> header.user_id, flashes |-> header.flashes]]
    ELSE jar

\* faulty variant: the keys of the header's session are merged into the stored one
SetCookieMerge(jar, c, header) ==
    IF header.set
    THEN [jar EXCEPT ![c] =
            [user_id |-> IF header.user_id # 0 THEN header.user_id ELSE @.user_id,
             flashes |-> header.flashes \/ @.flashes]]
    ELSE jar

\* the browser stores the cookie a Set-Cookie header carries
SetCookie(jar, c, header) ==
    IF header.set
    THEN [jar EXCEPT ![c] = [user_id |-> header.user_id, flashes |-> header.flashes]]
    ELSE jar

\* the response reaches the browser
respond(r) ==
    /\ req[r].pc = "respond"
    /\ cookie' = SetCookie(cookie, req[r].ctx, req[r].set_cookie)
    /\ req' = [req EXCEPT ![r] = Idle]
    /\ UNCHANGED <<users, plain>>

\* the requests of a set of request slots, with the forms a user submits and the
\* salts the generator returns drawn from the given sets
NextOf(reqs, loginForms, userForms, salts) ==
    \/ \E r \in reqs, c \in Ctxs, f \in loginForms, shown \in BOOLEAN :
            login(r, c, TRUE, f.email, f.password, shown)
    \/ \E r \in reqs, c \in Ctxs, shown \in BOOLEAN :
            login(r, c, FALSE, "", "", shown)
    \/ \E r \in reqs, c \in Ctxs, f \in userForms, shown \in BOOLEAN :
            register(r, c, TRUE, f.name, f.email, f.password, shown)
    \/ \E r \in reqs, c \in Ctxs, shown \in BOOLEAN :
            register(r, c, FALSE, "", "", "", shown)
    \/ \E r \in reqs, salt \in salts : register_commit(r, salt)
    \/ \E r \in reqs, c \in Ctxs, shown \in BOOLEAN : shop(r, c, shown)
    \/ \E r \in reqs, c \in Ctxs, shown \in BOOLEAN : home(r, c, shown)
    \/ \E r \in reqs, c \in Ctxs, shown \in BOOLEAN : about(r, c, shown)
    \/ \E r \in reqs, c \in Ctxs, shown \in BOOLEAN : contact(r, c, shown)
    \/ \E r \in reqs, c \in Ctxs : logout(r, c)
    \/ \E r \in reqs : respond(r)

\* Requests overlap, in and across contexts.  Two users register (with the same
\* password, so that a salt is all that can tell their hashes apart), log in with
\* the right or a wrong password, or leave a field empty or blank.
LoginForms ==
    {CreateLoginForm(e, p) : e \in {"a@x.com", "b@x.com"}, p \in {"pw1", "wrong"}}
        \cup {CreateLoginForm("", "pw1")}

UserForms ==
    {CreateUserForm("Ann", e, "pw1") : e \in {"a@x.com", "b@x.com"}}
        \cup {CreateUserForm(" ", "a@x.com", "pw1")}

Next == NextOf(Reqs, LoginForms, UserForms, {"s1"})

Spec == Init /\ [][Next]_vars

\* One request at a time, with every combination of the field values and two
\* outcomes of the salt generator.
AllLoginForms == {CreateLoginForm(e, p) : e \in Emails, p \in Passwords}

AllUserForms == {CreateUserForm(n, e, p) : n \in Names, e \in Emails, p \in Passwords}

NextSeq == NextOf({1}, AllLoginForms, AllUserForms, Salts)

SpecSeq == Init /\ [][NextSeq]_vars

\* Overlapping requests about one user, each run to its end: the server gives
\* every request a thread of its own that runs the view function and sends the
\* response, so a request that can take its next step eventually takes it.
LiveLoginForms == {CreateLoginForm("a@x.com", p) : p \in {"pw1", "wrong"}}

LiveUserForms == {CreateUserForm("Ann", "a@x.com", "pw1")}

NextLive == NextOf(Reqs, LiveLoginForms, LiveUserForms, {"s1"})

\* the rest of request r once its view function has started
Complete(r) == (\E salt \in {"s1"} : register_commit(r, salt)) \/ respond(r)

SpecLive == Init /\ [][NextLive]_vars /\ \A r \in Reqs : WF_vars(Complete(r))

\* ---- steps, as the properties below see them --------------------------------
\* the view function of request r ran in this step
Handled(r, kind) == req[r].pc = "idle" /\ req'[r].pc # "idle" /\ req'[r].kind = kind

\* the commit of register request r ran in this step
Committed(r) == req[r].pc = "commit" /\ req'[r].pc = "respond"

\* the response of request r reached the browser in this step
Responded(r) == req[r].pc = "respond" /\ req'[r].pc = "idle"

\* a field value with a character that is not whitespace
NonBlank(v) == v \notin {"", " "}

Redirects == {"redirect:/", "redirect:/login"}

\* the user a new request of context c would get as current_user
CurrentUser(c) == current_user(users, open_session(c))

TypeOK ==
    /\ \A u \in users : u.id \in 1..Cardinality(users)
    /\ \A c \in Ctxs : cookie[c].flashes \in BOOLEAN
    /\ Len(plain) = Cardinality(users)

\* ---- C1 ---------------------------------------------------------------------
\* C1: in every reachable state, however register requests of the contexts
\* interleave, the users table holds at most one record per email.
C1_OneUserPerEmail ==
    \A u, v \in users : u.email = v.email => u = v

\* two registrations of one email both passed the lookup, and one lost the commit
C1_Witness ==
    \E r \in Reqs : /\ req[r].kind = "register"
                    /\ req[r].resp = "500"
                    /\ \E u \in users : u.email = req[r].form.email

\* ---- C2 ---------------------------------------------------------------------
\* C2: a GET /shop sent while the context's cookie names no stored user (its
\* current user is none) is never answered with the shop page.
C2_AnonymousNeverSeesShop ==
    [][\A r \in Reqs :
         (/\ Handled(r, "shop")
          /\ cookie[req'[r].ctx].user_id \notin {u.id : u \in users})
            => req'[r].resp # "glasses.html"]_vars

\* an anonymous context asked for the shop after somebody had registered
C2_Witness ==
    \E r \in Reqs : /\ req[r].kind = "shop"
                    /\ req[r].pc = "respond"
                    /\ cookie[req[r].ctx].user_id = 0
                    /\ req[r].resp # "glasses.html"
                    /\ users # {}

\* ---- C3 ---------------------------------------------------------------------
\* C3: a GET /shop from a context whose current user is none is answered with a
\* redirect to /login.
C3_AnonymousShopRedirectsToLogin ==
    \A r \in Reqs :
        (req[r].kind = "shop" /\ req[r].pc = "respond" /\ ~req[r].logged_in)
            => req[r].resp = "redirect:/login"

\* ---- C4 ---------------------------------------------------------------------
\* C4 as stated: once a context's current user is u, it stays u until the
\* response of a logout or of a successful login reaches that context.
C4_Original ==
    [][\A c \in Ctxs :
         (CurrentUser(c).id # 0 /\ CurrentUser(c)'.id # CurrentUser(c).id)
            => \E r \in Reqs :
                 /\ Responded(r)
                 /\ req[r].ctx = c
                 /\ \/ req[r].kind = "logout"
                    \/ req[r].kind = "login" /\ req[r].resp = "redirect:/"]_vars

\* C4 as amended: a successful login binds the session to the record with the
\* email's id, and when its response arrives that record is the context's current
\* user; the current user of a context then changes only when a response with a
\* session cookie reaches that same context; and every such response other than
\* that of a logout or a successful login carries the user id its session was
\* opened with.  So the current user stays u until the next logout, successful
\* login, or response to a request that opened its session before the login's
\* response arrived.
C4_LoginHoldsUntilNextSessionWrite ==
    /\ [][\A r \in Reqs :
            (Handled(r, "login") /\ req'[r].resp = "redirect:/")
               => /\ req'[r].set_cookie.set
                  /\ \E u \in users : /\ u.email = req'[r].form.email
                                      /\ req'[r].set_cookie.user_id = u.id]_vars
    /\ [][\A r \in Reqs, c \in Ctxs :
            (/\ Responded(r)
             /\ req[r].ctx = c
             /\ req[r].kind = "login"
             /\ req[r].resp = "redirect:/")
               => /\ CurrentUser(c)' \in users
                  /\ CurrentUser(c)'.id = req[r].set_cookie.user_id]_vars
    /\ [][\A c \in Ctxs :
            CurrentUser(c)' # CurrentUser(c)
               => \E r \in Reqs : /\ Responded(r)
                                  /\ req[r].ctx = c
                                  /\ req[r].set_cookie.set]_vars
    /\ [][\A r \in Reqs, k \in {"login", "register", "shop", "home", "about", "contact"} :
            (/\ Handled(r, k)
             /\ req'[r].set_cookie.set
             /\ ~(k = "login" /\ req'[r].resp = "redirect:/"))
               => req'[r].set_cookie.user_id = cookie[req'[r].ctx].user_id]_vars

\* a context logged in as the second user and later flashed a message without
\* losing the login
C4_Witness ==
    \E c \in Ctxs : /\ cookie[c].user_id = 2
                    /\ cookie[c].flashes
                    /\ CurrentUser(c).id = 2

\* ---- C5 ---------------------------------------------------------------------
\* C5: a POST /login with a registered user's email and a non-empty password
\* binds the session to that user's id exactly when the password is the one
\* given at that user's registration, and the response then makes that user the
\* context's current user.
C5_LoginIffPasswordMatches ==
    /\ [][\A r \in Reqs :
            (Handled(r, "login") /\ req'[r].form.password # "")
               => \A u \in users :
                    u.email = req'[r].form.email
                       => ((/\ req'[r].resp = "redirect:/"
                            /\ req'[r].set_cookie.set
                            /\ req'[r].set_cookie.user_id = u.id)
                           <=> req'[r].form.password = plain[u.id])]_vars
    /\ [][\A r \in Reqs :
            (Responded(r) /\ req[r].kind = "login" /\ req[r].resp = "redirect:/")
               => cookie'[req[r].ctx].user_id = req[r].set_cookie.user_id]_vars

\* the user who registered with "pw2" logged in while the other one had "pw1"
C5_Witness ==
    \E r \in Reqs : /\ req[r].kind = "login"
                    /\ req[r].resp = "redirect:/"
                    /\ req[r].set_cookie.user_id = 2
                    /\ plain = <<"pw1", "pw2">>

\* ---- C6 ---------------------------------------------------------------------
\* C6: the response to a successful registration carries a session bound to the
\* new user (no separate login is needed).
C6_RegisterLogsIn ==
    \A r \in Reqs :
        (req[r].kind = "register" /\ req[r].pc = "respond" /\ req[r].resp = "redirect:/")
            => /\ req[r].set_cookie.set
               /\ \E u \in users : /\ u.email = req[r].form.email
                                   /\ req[r].set_cookie.user_id = u.id

\* ---- C7 ---------------------------------------------------------------------
\* C7 as stated: a register request with non-empty name, email and password whose
\* email is not in the table reaches the commit, and the commit of an email that
\* is not in the table adds exactly one record with that email and name and a new
\* id, changes no other record, and answers with the redirect to the landing page.
C7_Original ==
    /\ [][\A r \in Reqs :
            (/\ Handled(r, "register")
             /\ req'[r].form.name # ""
             /\ req'[r].form.email # ""
             /\ req'[r].form.password # ""
             /\ ~\E u \in users : u.email = req'[r].form.email)
               => req'[r].pc = "commit"]_vars
    /\ [][\A r \in Reqs :
            (Committed(r) /\ ~\E u \in users : u.email = req[r].form.email)
               => /\ \E n \in users' :
                       /\ n \notin users
                       /\ users' = users \cup {n}
                       /\ n.email = req[r].form.email
                       /\ n.name = req[r].form.name
                       /\ \A u \in users : u.id # n.id
                  /\ req'[r].resp = "redirect:/"]_vars

\* C7 as amended: the same for a register request whose name, email and password
\* each hold a character that is not whitespace.
C7_RegisterAddsOneRecord ==
    /\ [][\A r \in Reqs :
            (/\ Handled(r, "register")
             /\ NonBlank(req'[r].form.name)
             /\ NonBlank(req'[r].form.email)
             /\ NonBlank(req'[r].form.password)
             /\ ~\E u \in users : u.email = req'[r].form.email)
               => req'[r].pc = "commit"]_vars
    /\ [][\A r \in Reqs :
            (Committed(r) /\ ~\E u \in users : u.email = req[r].form.email)
               => /\ \E n \in users' :
                       /\ n \notin users
                       /\ users' = users \cup {n}
                       /\ n.email = req[r].form.email
                       /\ n.name = req[r].form.name
                       /\ \A u \in users : u.id # n.id
                  /\ req'[r].resp = "redirect:/"]_vars

\* the second user has just been registered
C7_Witness ==
    \E r \in Reqs : /\ req[r].kind = "register"
                    /\ req[r].pc = "respond"
                    /\ req[r].resp = "redirect:/"
                    /\ \E u \in users : u.email = req[r].form.email /\ u.id = 2

\* ---- C8 ---------------------------------------------------------------------
\* C8: a register request (with its fields filled in) whose email belongs to a
\* stored user flashes "Email Already Exists", is answered with the redirect to
\* the login page without reaching the commit, and leaves the table unchanged.
C8_DuplicateEmailRejected ==
    [][\A r \in Reqs :
         (/\ Handled(r, "register")
          /\ NonBlank(req'[r].form.name)
          /\ NonBlank(req'[r].form.email)
          /\ NonBlank(req'[r].form.password)
          /\ \E u \in users : u.email = req'[r].form.email)
            => /\ req'[r].pc = "respond"
               /\ req'[r].flashed = "Email Already Exists"
               /\ req'[r].resp = "redirect:/login"
               /\ users' = users]_vars

\* a registration of a stored email was rejected
C8_Witness ==
    \E r \in Reqs : /\ req[r].kind = "register"
                    /\ req[r].flashed = "Email Already Exists"
                    /\ Cardinality({u \in users : u.email = req[r].form.email}) = 1

\* ---- C9 ---------------------------------------------------------------------
\* C9: a register request that passed the lookup and finds its email in the table
\* at the commit is answered with a redirect and a flashed message, not with a
\* server error, and creates no record.
C9_RaceLoserRecovered ==
    [][\A r \in Reqs :
         (Committed(r) /\ \E u \in users : u.email = req[r].form.email)
            => /\ req'[r].resp \in Redirects
               /\ req'[r].flashed \in Messages
               /\ users' = users]_vars

\* ---- C10 --------------------------------------------------------------------
\* C10: a login (with its fields filled in) from a context without a session
\* flashes "Email doesn't exist" when no stored user has the email, whatever the
\* password, and "Password doesn't match" when a user has the email and the
\* password is not the registered one; either way it is answered with the
\* redirect to the login page and its response leaves the context without a
\* session.
C10_FailedLoginMessages ==
    /\ [][\A r \in Reqs :
            (/\ Handled(r, "login")
             /\ NonBlank(req'[r].form.email)
             /\ NonBlank(req'[r].form.password)
             /\ cookie[req'[r].ctx].user_id = 0)
               => LET form == req'[r].form
                      found == {u \in users : u.email = form.email}
                  IN  /\ found = {}
                         => /\ req'[r].flashed = "Email doesn't exist"
                            /\ req'[r].resp = "redirect:/login"
                            /\ req'[r].set_cookie.user_id = 0
                      /\ (\E u \in found : plain[u.id] # form.password)
                         => /\ req'[r].flashed = "Password doesn't match"
                            /\ req'[r].resp = "redirect:/login"
                            /\ req'[r].set_cookie.user_id = 0]_vars
    /\ [][\A r \in Reqs, c \in Ctxs :
            (/\ Responded(r)
             /\ req[r].ctx = c
             /\ req[r].kind = "login"
             /\ req[r].flashed # ""
             /\ req[r].set_cookie.user_id = 0)
               => /\ cookie'[c].user_id = 0
                  /\ CurrentUser(c)' = NoneUser]_vars

\* a wrong password for a stored email, sent from a context without a session
C10_Witness ==
    \E r \in Reqs : /\ req[r].kind = "login"
                    /\ req[r].flashed = "Password doesn't match"
                    /\ req[r].set_cookie.user_id = 0
                    /\ req[r].form.password = "wrong"

\* ---- C11 --------------------------------------------------------------------
\* a field of the form that is empty or only whitespace
BlankField(form, kind) ==
    \/ ~NonBlank(form.email)
    \/ ~NonBlank(form.password)
    \/ kind = "register" /\ ~NonBlank(form.name)

FormPage(kind) == IF kind = "login" THEN "login.html" ELSE "register.html"

\* C11: a login or register request with a required field empty or blank ends in
\* one step with the form it came from: nothing is flashed (the outcome of a
\* lookup never shows, whether the email is stored or not), the request never
\* reaches the commit, the table stays as it is, and a session cookie the
\* response carries holds the user id the request came with, so that the context
\* has the same user after the response as before.
C11_BlankFieldRedisplaysForm ==
    [][\A r \in Reqs, c \in Ctxs, kind \in {"login", "register"} :
         /\ (Handled(r, kind) /\ req'[r].ctx = c /\ BlankField(req'[r].form, kind))
               => /\ req'[r].pc = "respond"
                  /\ req'[r].resp = FormPage(kind)
                  /\ req'[r].flashed = ""
                  /\ users' = users
                  /\ req'[r].set_cookie.set
                        => req'[r].set_cookie.user_id = cookie[c].user_id
         /\ (/\ Responded(r) /\ req[r].ctx = c /\ req[r].kind = kind
             /\ BlankField(req[r].form, kind))
               => /\ cookie'[c].user_id = cookie[c].user_id
                  /\ users' = users]_vars

\* a register request with a blank name and a stored email, sent by a logged-in
\* context, got the form back
C11_Witness ==
    /\ req[1].pc = "respond"
    /\ req[1].kind = "register"
    /\ req[1].form.name = " "
    /\ NonBlank(req[1].form.password)
    /\ \E u \in users : u.email = req[1].form.email
    /\ req[1].resp = "register.html"
    /\ cookie[req[1].ctx].user_id # 0

C13_LoginReplacesSubject ==
    [][\A r \in Reqs, c \in Ctxs :
         /\ cookie[c].user_id \in 0..Cardinality(users)
         /\ (/\ Handled(r, "login") /\ req'[r].ctx = c
             /\ req'[r].resp = "redirect:/"
             /\ cookie[c].user_id # 0)
               => /\ req'[r].set_cookie.set
                  /\ req'[r].set_cookie.user_id
                        = filter_by_email(users, req'[r].form.email).id
                  /\ req'[r].set_cookie.user_id # 0
         /\ (/\ Responded(r) /\ req[r].ctx = c /\ req[r].kind = "login"
             /\ req[r].resp = "redirect:/")
               => /\ cookie'[c].user_id = req[r].set_cookie.user_id
                  /\ CurrentUser(c)'.id = cookie'[c].user_id
                  /\ CurrentUser(c)'.email = req[r].form.email]_vars

\* the response of a login as user 2 is on its way to a context logged in as
\* user 1
C13_Witness ==
    \E r \in Reqs :
        /\ req[r].pc = "respond"
        /\ req[r].kind = "login"
        /\ req[r].resp = "redirect:/"
        /\ req[r].set_cookie.user_id = 2
        /\ cookie[req[r].ctx].user_id = 1

\* ---- C14 --------------------------------------------------------------------
\* two stored users who registered with the same password
SamePassword(u, v) == u.id # v.id /\ plain[u.id] = plain[v.id]

\* C14 as stated: two users who registered with the same password never have
\* the same hash string, and the password verifies against both
C14_Original ==
    \A u, v \in users :
        SamePassword(u, v)
          => /\ u.password # v.password
             /\ check_password_hash(u.password, plain[u.id])
             /\ check_password_hash(v.password, plain[v.id])

\* C14: the hash strings of two users who registered with the same password
\* are equal exactly when the generator returned the same salt for both, and
\* the password verifies against both in either case.
C14_SaltTellsHashesApart ==
    \A u, v \in users :
        SamePassword(u, v)
          => /\ (u.password = v.password) <=> (u.password[2] = v.password[2])
             /\ check_password_hash(u.password, plain[u.id])
             /\ check_password_hash(v.password, plain[v.id])

\* two users registered with the same password and got different salts
C14_Witness ==
    \E u, v \in users :
        /\ SamePassword(u, v)
        /\ u.password[2] # v.password[2]
        /\ u.password # v.password

\* ---- C15 --------------------------------------------------------------------
\* C15: every step keeps every stored record as it is; the table changes only
\* in the commit of a register request that answers with the redirect to the
\* landing page, by one record with the submitted email, which was not stored.
\* The view functions of login, logout, shop and the pages, a register that
\* does not reach the commit or whose commit fails, and the responses leave the
\* table unchanged.
C15_StoreOnlyGrowsByRegister ==
    [][/\ users \subseteq users'
       /\ users' # users
            => \E r \in Reqs :
                  /\ Committed(r)
                  /\ req[r].kind = "register"
                  /\ req'[r].resp = "redirect:/"
                  /\ ~\E u \in users : u.email = req[r].form.email
                  /\ \E new \in users' :
                        /\ users' = users \cup {new}
                        /\ new.id \notin {u.id : u \in users}
                        /\ new.email = req[r].form.email
       /\ \A r \in Reqs :
            (\/ Responded(r)
             \/ Committed(r) /\ req'[r].resp = "500"
             \/ \E kind \in {"login", "register", "logout", "shop", "home",
                               "about", "contact"} : Handled(r, kind))
               => users' = users]_vars

\* a commit has just added a second record to the table
C15_Witness ==
    \E r \in Reqs :
        /\ req[r].pc = "respond"
        /\ req[r].kind = "register"
        /\ req[r].resp = "redirect:/"
        /\ Cardinality(users) = 2
        /\ \E u \in users : u.id = 2 /\ u.email = req[r].form.email

\* ---- C16 --------------------------------------------------------------------
FailedLogin == {"Password doesn't match", "Email doesn't exist"}

\* C16: a login request sent from a logged-in context that fails (the email is
\* not stored or the password does not verify) answers with a cookie that holds
\* the user id it came with, and after its response the context is logged in as
\* that user: the loader finds the user's record.
C16_FailedLoginKeepsSubject ==
    [][\A r \in Reqs, c \in Ctxs :
         /\ (/\ Handled(r, "login") /\ req'[r].ctx = c
             /\ LoginFormValid(TRUE, req'[r].form)
             /\ LET user == filter_by_email(users, req'[r].form.email)
                IN  \/ user = NoneUser
                    \/ ~check_password_hash(user.password, req'[r].form.password)
             /\ cookie[c].user_id # 0)
               => /\ req'[r].flashed \in FailedLogin
                  /\ req'[r].resp = "redirect:/login"
                  /\ req'[r].set_cookie.set
                  /\ req'[r].set_cookie.user_id = cookie[c].user_id
                  /\ users' = users
         /\ (/\ Responded(r) /\ req[r].ctx = c /\ req[r].kind = "login"
             /\ req[r].flashed \in FailedLogin
             /\ req[r].set_cookie.user_id # 0)
               => /\ cookie'[c].user_id = req[r].set_cookie.user_id
                  /\ CurrentUser(c)' # NoneUser
                  /\ CurrentUser(c)'.id = req[r].set_cookie.user_id
                  /\ CurrentUser(c)' \in users]_vars

\* a login with a wrong password, sent from a logged-in context, has its
\* response on the way
C16_Witness ==
    \E r \in Reqs :
        /\ req[r].pc = "respond"
        /\ req[r].kind = "login"
        /\ req[r].flashed = "Password doesn't match"
        /\ req[r].set_cookie.user_id # 0
        /\ cookie[req[r].ctx].user_id = req[r].set_cookie.user_id

\* ---- C17 --------------------------------------------------------------------
\* the loader finds a record for a user id kept in a session
Resolves(user_id) ==
    /\ load_user(users, user_id) # NoneUser
    /\ load_user(users, user_id) \in users
    /\ load_user(users, user_id).id = user_id

\* C17: the user id in the session cookie of a context, and in the cookie of a
\* response on its way, is the id of a stored record: the loader finds it, and
\* the current user of a context whose session holds an id is authenticated.
C17_SubjectResolves ==
    /\ \A c \in Ctxs :
          cookie[c].user_id # 0
            => /\ Resolves(cookie[c].user_id)
               /\ is_authenticated(CurrentUser(c))
    /\ \A r \in Reqs :
          req[r].set_cookie.user_id # 0 => Resolves(req[r].set_cookie.user_id)

\* both contexts are logged in, as different users
C17_Witness ==
    /\ cookie[1].user_id # 0
    /\ cookie[2].user_id # 0
    /\ cookie[1].user_id # cookie[2].user_id

\* ---- C18 --------------------------------------------------------------------
\* request r of a context other than c took a step (its view function ran, its
\* commit ran, or its response arrived)
StepOfOtherContext(r, c) ==
    \/ req[r].pc = "idle" /\ req'[r].pc # "idle" /\ req'[r].ctx # c
    \/ req[r].pc # "idle" /\ req'[r] # req[r] /\ req[r].ctx # c

\* C18: the session cookie of a context changes only when a response to a
\* request of that same context arrives with a session cookie; a step of a
\* request of another context leaves the cookie and the current user of the
\* context as they are, also when both contexts are logged in as one user.
C18_SessionPerContext ==
    [][\A c \in Ctxs :
         /\ cookie'[c] # cookie[c]
               => \E r \in Reqs : /\ Responded(r)
                                   /\ req[r].ctx = c
                                   /\ req[r].set_cookie.set
         /\ \A r \in Reqs :
               StepOfOtherContext(r, c)
                 => /\ cookie'[c] = cookie[c]
                    /\ CurrentUser(c)' = CurrentUser(c)]_vars

\* both contexts are logged in as the same user and the response of a logout
\* of context 1 is on its way
C18_Witness ==
    /\ cookie[1].user_id # 0
    /\ cookie[2].user_id = cookie[1].user_id
    /\ \E r \in Reqs : /\ req[r].pc = "respond"
                        /\ req[r].kind = "logout"
                        /\ req[r].ctx = 1
                        /\ req[r].set_cookie.set

\* ---- C19 --------------------------------------------------------------------
\* the session the response of request r writes
Written(r) ==
    [user_id |-> req[r].set_cookie.user_id, flashes |-> req[r].set_cookie.flashes]

\* the responses of r and q are both on their way to context c, each with a
\* session cookie
Overlap(r, q, c) ==
    /\ r # q
    /\ req[r].pc = "respond" /\ req[r].ctx = c /\ req[r].set_cookie.set
    /\ req[q].pc = "respond" /\ req[q].ctx = c /\ req[q].set_cookie.set

\* C19: when the responses of two requests of one context are both on their way
\* with a session cookie, the one that arrives makes the cookie of the context
\* exactly the session it carries (user id and messages alike) and leaves the
\* other response as it is; the other one does the same when it arrives, so
\* the context ends with the session of the response that arrived last.  A
\* response that arrives alone does the same.
C19_LastWriteWins ==
    [][\A r \in Reqs, c \in Ctxs :
         /\ \A q \in Reqs :
               (Overlap(r, q, c) /\ Responded(r))
                 => /\ cookie'[c] = Written(r)
                    /\ req'[q] = req[q]
         /\ (Responded(r) /\ req[r].ctx = c /\ req[r].set_cookie.set)
               => /\ cookie'[c] = Written(r)
                  /\ \A d \in Ctxs \ {c} : cookie'[d] = cookie[d]]_vars

\* two successful logins as different users, sent from one context, both have
\* their responses on the way
C19_Witness ==
    \E c \in Ctxs :
        /\ Overlap(1, 2, c)
        /\ req[1].set_cookie.user_id # 0
        /\ req[2].set_cookie.user_id # 0
        /\ req[1].set_cookie.user_id # req[2].set_cookie.user_id

\* ---- C20 --------------------------------------------------------------------
\* C20: a request that has started always has a step of its own to take,
\* whatever the other requests are doing, and it reaches its response (a page,
\* a redirect or an error status) and then its end.
C20_EveryRequestCompletes ==
    \A r \in Reqs :
        /\ [](req[r].pc # "idle" => ENABLED <<Complete(r)>>_vars)
        /\ [](req[r].pc = "respond" => req[r].resp # "")
        /\ (req[r].pc = "commit") ~> (req[r].pc = "respond")
        /\ (req[r].pc # "idle") ~> (req[r].pc = "idle")

\* two register requests with the same email are both about to commit
C20_Witness ==
    /\ req[1].pc = "commit"
    /\ req[2].pc = "commit"
    /\ req[1].form.email = req[2].form.email
====
